---- MODULE Spec2Model ----
(***************************************************************************)
(* Station-keeping control loop of the CubeSat mission-control program:    *)
(* Satellite (satellite_components.py), PIDController                      *)
(* (control_algorithm.py) and MainApplication's loop and callbacks         *)
(* (main.py), with the constants of config.py.                             *)
(*                                                                         *)
(* Numbers.  Python floats are modelled as exact decimal fixed-point       *)
(* integers: the real number x is the integer x * Unit.  Sums and          *)
(* differences are exact.  A gain product (a gain is a number of tenths)   *)
(* is exact whenever its mathematical value is a whole number of units     *)
(* and is rounded down to the unit otherwise; binary rounding of IEEE      *)
(* doubles is not modelled.                                                *)
(***************************************************************************)
EXTENDS Integers, Sequences, FiniteSets, TLC

\* One unit of the fixed-point representation is 10^-5: 1.0 = Unit.
Unit == 100000

----------------------------------------------------------------------------
(* config.py *)

ON_COURSE_THRESHOLD == Unit \div 10
TARGET_ALTITUDE == 8000 * Unit
TARGET_INCLINATION == 45 * Unit
TARGET_ECCENTRICITY == Unit \div 5
\* Gains in tenths: Kp = 1.2, Ki = 0.1, Kd = 0.2.
GainDen == 10
PID_GAINS == [Kp |-> 12, Ki |-> 1, Kd |-> 2]
TELEMETRY_LOG_MAX_SIZE == 1000
HISTORY_LOG_MAX_SIZE == 500

----------------------------------------------------------------------------
(* Bounds of the model *)

\* Ticks of the control loop in one behaviour.
MaxTicks == 2
\* Worker threads alive at the same time.
MaxWorkers == 2
\* Operations in one behaviour of the Satellite specification.
MaxOps == 3
\* compute_correction calls in one behaviour of the PID specification.
MaxCalls == 3
\* Entries appended beyond the capacity in the log specification.
MaxExtra == 2

----------------------------------------------------------------------------
(* Vectors *)

Zero3 == <<0, 0, 0>>
VAdd(u, v) == [i \in 1..3 |-> u[i] + v[i]]
VSub(u, v) == [i \in 1..3 |-> u[i] - v[i]]
Abs(x) == IF x < 0 THEN -x ELSE x

\* np.clip(x, lo, hi)
clip(x, lo, hi) == IF x < lo THEN lo ELSE IF x > hi THEN hi ELSE x

\* Bounds of the clamps of Satellite: inclination [0, 180], eccentricity [0, 0.99].
INC_MAX == 180 * Unit
ECC_MAX == (99 * Unit) \div 100

----------------------------------------------------------------------------
(* satellite_components.py: Satellite *)

Satellite(initial_altitude, initial_inclination, initial_eccentricity) ==
    [altitude |-> initial_altitude,
     inclination |-> initial_inclination,
     eccentricity |-> initial_eccentricity]

get_orbital_parameters(self) ==
    <<self.altitude, self.inclination, self.eccentricity>>

\* The three draws of np.random.uniform: d[1] in [0.01, 0.05] is the loss of
\* altitude, d[2] in [-0.01, 0.01], d[3] in [-0.001, 0.001].
Draws ==
    {<<(5 * Unit) \div 100, Unit \div 100, Unit \div 1000>>,
     <<(5 * Unit) \div 100, -(Unit \div 100), -(Unit \div 1000)>>,
     <<Unit \div 100, -(Unit \div 100), Unit \div 1000>>}

simulate_orbital_drift_gain(self, d) ==
    [altitude |-> self.altitude + d[1],
     inclination |-> clip(self.inclination + d[2], 0, INC_MAX),
     eccentricity |-> clip(self.eccentricity + d[3], 0, ECC_MAX)]

simulate_orbital_drift(self, d) ==
    [altitude |-> self.altitude - d[1],
     inclination |-> clip(self.inclination + d[2], 0, INC_MAX),
     eccentricity |-> clip(self.eccentricity + d[3], 0, ECC_MAX)]

apply_orbital_correction_prefix(self, correction_vector) ==
    IF Len(correction_vector) >= 3
    THEN [altitude |-> self.altitude + correction_vector[1],
          inclination |-> clip(self.inclination + correction_vector[2], 0, INC_MAX),
          eccentricity |-> clip(self.eccentricity + correction_vector[3], 0, ECC_MAX)]
    ELSE IF Len(correction_vector) >= 1
    THEN [self EXCEPT !.altitude = self.altitude + correction_vector[1]]
    ELSE self

apply_orbital_correction_slider_max(self, correction_vector) ==
    IF Len(correction_vector) = 3
    THEN [altitude |-> self.altitude + correction_vector[1],
          inclination |-> clip(self.inclination + correction_vector[2], 0, INC_MAX),
          eccentricity |-> clip(self.eccentricity + correction_vector[3], 0,
                                (999 * Unit) \div 1000)]
    ELSE self

apply_orbital_correction_noclip(self, correction_vector) ==
    IF Len(correction_vector) = 3
    THEN [altitude |-> self.altitude + correction_vector[1],
          inclination |-> clip(self.inclination + correction_vector[2], 0, INC_MAX),
          eccentricity |-> self.eccentricity + correction_vector[3]]
    ELSE self

apply_orbital_correction(self, correction_vector) ==
    IF Len(correction_vector) = 3
    THEN [altitude |-> self.altitude + correction_vector[1],
          inclination |-> clip(self.inclination + correction_vector[2], 0, INC_MAX),
          eccentricity |-> clip(self.eccentricity + correction_vector[3], 0, ECC_MAX)]
    ELSE self

----------------------------------------------------------------------------
(* control_algorithm.py: PIDController *)

PIDController(Kp, Ki, Kd) ==
    [Kp |-> Kp, Ki |-> Ki, Kd |-> Kd,
     integral |-> Zero3, previous_error |-> Zero3]

\* gain * x for a gain given in tenths: (gain * x) \div GainDen, with the
\* product taken on the quotient and the remainder of x so that it stays
\* within the integers of the model checker.
GainMul(gain, x) ==
    gain * (x \div GainDen) + (gain * (x % GainDen)) \div GainDen

compute_correction_windup(self, target_vector, current_vector) ==
    LET error == VSub(target_vector, current_vector)
        integral == [i \in 1..3 |->
                        clip(self.integral[i] + error[i], -(20 * Unit), 20 * Unit)]
        derivative == VSub(error, self.previous_error)
    IN  [self |-> [self EXCEPT !.integral = integral, !.previous_error = error],
         result |-> [i \in 1..3 |-> GainMul(self.Kp, error[i])
                                     + GainMul(self.Ki, integral[i])
                                     + GainMul(self.Kd, derivative[i])]]

compute_correction_stale_integral(self, target_vector, current_vector) ==
    LET error == VSub(target_vector, current_vector)
        integral == VAdd(self.integral, error)
        derivative == VSub(error, self.previous_error)
    IN  [self |-> [self EXCEPT !.integral = integral, !.previous_error = error],
         result |-> [i \in 1..3 |-> GainMul(self.Kp, error[i])
                                     + GainMul(self.Ki, self.integral[i])
                                     + GainMul(self.Kd, derivative[i])]]

\* A call yields the controller after the call and the list it returns.
compute_correction(self, target_vector, current_vector) ==
    LET error == VSub(target_vector, current_vector)
        integral == VAdd(self.integral, error)
        derivative == VSub(error, self.previous_error)
    IN  [self |-> [self EXCEPT !.integral = integral, !.previous_error = error],
         result |-> [i \in 1..3 |-> GainMul(self.Kp, error[i])
                                     + GainMul(self.Ki, integral[i])
                                     + GainMul(self.Kd, derivative[i])]]

reset_keep_integral(self) ==
    [self EXCEPT !.previous_error = Zero3]

reset_keep_error(self) == [self EXCEPT !.integral = Zero3]

reset(self) == [self EXCEPT !.integral = Zero3, !.previous_error = Zero3]

----------------------------------------------------------------------------
(* TelemetrySystem and HistoryRecorder (telemetry.py, history.py): the two
   bounded logs.  None is Python's None. *)

None == <<>>

append_drop_newest(log, entry, maxlen) ==
    IF Len(log) >= maxlen THEN log ELSE Append(log, entry)

\* deque(maxlen).append
append_bounded(log, entry, maxlen) ==
    IF Len(log) >= maxlen THEN Append(Tail(log), entry) ELSE Append(log, entry)

TelemetryEntry(timestamp, current_orbital_params, target_orbital_params, correction_vector, is_on_course) ==
    [timestamp |-> timestamp,
     current_orbital_params |-> current_orbital_params,
     target_orbital_params |-> target_orbital_params,
     correction_vector |-> correction_vector,
     is_on_course |-> is_on_course]

HistoryEntry(timestamp, altitude_change) ==
    [timestamp |-> timestamp, altitude_change |-> altitude_change]

log_status(log, entry) == append_bounded(log, entry, TELEMETRY_LOG_MAX_SIZE)

record_drift(log, entry) == append_bounded(log, entry, HISTORY_LOG_MAX_SIZE)

----------------------------------------------------------------------------
(* main.py: MainApplication *)

VARIABLES
    target_altitude, target_inclination, target_eccentricity,
    my_satellite,        \* Satellite
    my_controller,       \* PIDController
    my_telemetry,        \* the telemetry log, oldest entry first
    my_history,          \* the history log, oldest entry first
    loop_is_running, recording_history, paused, status_text,
    loop_thread,         \* "None" or "Thread": the handle kept by the application
    correction_count,
    is_animating,        \* OrbitSimulationFrame.is_animating
    workers,             \* number of live threads running main_loop
    now,                 \* number of ticks done: the timestamp of the next entries
    steps,               \* operations done in the component specifications
    lastOp,              \* component specifications: the operation done last
    lastIn,              \* the input of that operation, or the draws of the last tick
    lastOut,             \* the value it returned, or the correction of the last tick
    calls,               \* PID calls since construction: <<target, current, result>>,
                         \* and "reset" for a reset
    in_tick,             \* threads of main_loop past the checks at the top of the
                         \* loop and not yet at the end of the iteration
    joining,             \* the GUI thread is inside loop_thread.join of stop_loop
    lastStep,            \* lifecycle specification: the step taken last
    wpc,                 \* thread specification: where the thread of main_loop is
    wloc,                \* its local variables
    upc,                 \* where the GUI thread is inside a callback, or "idle"
    uloc,                \* the local variables of that callback
    scheduled,           \* callbacks handed to self.after in the current iteration
    counted              \* increments of the counter since it was last set to 0

vars == <<target_altitude, target_inclination, target_eccentricity, my_satellite,
          my_controller, my_telemetry, my_history, loop_is_running,
          recording_history, paused, status_text, loop_thread, correction_count,
          is_animating, workers, now, steps, lastOp, lastIn, lastOut, calls,
          in_tick, joining, lastStep, wpc, wloc, upc, uloc, scheduled, counted>>

lifeVars == <<in_tick, joining, lastStep>>

threadVars == <<wpc, wloc, upc, uloc, scheduled, counted>>

appVars == <<target_altitude, target_inclination, target_eccentricity,
             loop_is_running, recording_history, paused, status_text, loop_thread,
             correction_count, is_animating, workers, now, in_tick, joining, lastStep,
             wpc, wloc, upc, uloc, scheduled, counted>>

DefaultTarget == <<TARGET_ALTITUDE, TARGET_INCLINATION, TARGET_ECCENTRICITY>>

\* Positions the three sliders can be moved to: altitude 500..40000,
\* inclination 0..180, eccentricity 0..0.999.
SliderValues == {DefaultTarget, <<7500 * Unit, 180 * Unit, (999 * Unit) \div 1000>>}

\* MainApplication.__init__: the fields other than the target
InitFields ==
    /\ my_controller = PIDController(PID_GAINS.Kp, PID_GAINS.Ki, PID_GAINS.Kd)
    /\ my_telemetry = <<>>
    /\ my_history = <<>>
    /\ loop_is_running = FALSE
    /\ recording_history = FALSE
    /\ loop_thread = "None"
    /\ paused = TRUE
    /\ status_text = "Paused"
    /\ correction_count = 0
    /\ is_animating = FALSE
    /\ workers = 0
    /\ now = 0
    /\ steps = 0
    /\ lastOp = "__init__"
    /\ lastIn = None
    /\ lastOut = None
    /\ calls = <<>>
    /\ in_tick = 0
    /\ joining = FALSE
    /\ lastStep = "__init__"
    /\ wpc = "top"
    /\ wloc = <<>>
    /\ upc = "idle"
    /\ uloc = <<>>
    /\ scheduled = <<>>
    /\ counted = 0

\* MainApplication.__init__
InitApp ==
    /\ target_altitude = TARGET_ALTITUDE
    /\ target_inclination = TARGET_INCLINATION
    /\ target_eccentricity = TARGET_ECCENTRICITY
    /\ InitFields

Init ==
    /\ InitApp
    /\ my_satellite = Satellite(TARGET_ALTITUDE, TARGET_INCLINATION, TARGET_ECCENTRICITY)

\* np.linalg.norm(e) < threshold, compared on the squares.  A component as
\* large as the threshold already decides the comparison.
NormBelow(e, threshold) ==
    /\ \A i \in 1..3 : Abs(e[i]) < threshold
    /\ e[1] * e[1] + e[2] * e[2] + e[3] * e[3] < threshold * threshold

is_on_course_half(target_params, current_params) ==
    NormBelow(VSub(target_params, current_params), ON_COURSE_THRESHOLD \div 2)

is_on_course_tenth(target_params, current_params) ==
    NormBelow(VSub(target_params, current_params), ON_COURSE_THRESHOLD \div 10)

is_on_course_le(target_params, current_params) ==
    LET e == VSub(target_params, current_params)
    IN  /\ \A i \in 1..3 : Abs(e[i]) <= ON_COURSE_THRESHOLD
        /\ e[1] * e[1] + e[2] * e[2] + e[3] * e[3]
              <= ON_COURSE_THRESHOLD * ON_COURSE_THRESHOLD

\* main_loop: error_magnitude < ON_COURSE_THRESHOLD
is_on_course(target_params, current_params) ==
    NormBelow(VSub(target_params, current_params), ON_COURSE_THRESHOLD)

\* main_loop: the counter after the control step of a tick
tick_count(count, on_course) ==
    IF on_course THEN count ELSE count + 1

tick_history_on_correction(log, recording, correction_vector, timestamp, altitude_change) ==
    IF recording /\ correction_vector # None
    THEN record_drift(log, HistoryEntry(timestamp, altitude_change))
    ELSE log

\* main_loop: the history log after the logging step of a tick
tick_history(log, recording, correction_vector, timestamp, altitude_change) ==
    IF recording
    THEN record_drift(log, HistoryEntry(timestamp, altitude_change))
    ELSE log

tick_telemetry_on_correction(log, timestamp, current_params, target_params, correction_vector, on_course) ==
    IF correction_vector # None
    THEN log_status(log, TelemetryEntry(timestamp, current_params, target_params,
                                        correction_vector, on_course))
    ELSE log

\* main_loop: the telemetry log after the logging step of a tick
tick_telemetry(log, timestamp, current_params, target_params, correction_vector, on_course) ==
    log_status(log, TelemetryEntry(timestamp, current_params, target_params,
                                   correction_vector, on_course))

\* main_loop: the body of one iteration, from the drift to the sleep that
\* ends it; d are the draws of the drift.  The plot data and the refreshes
\* handed to the GUI thread are display state and are left out.
tick_body(d) ==
    /\ LET initial_altitude == my_satellite.altitude
           drifted == simulate_orbital_drift(my_satellite, d)
           current_params == get_orbital_parameters(drifted)
           target_params == <<target_altitude, target_inclination, target_eccentricity>>
           on_course == is_on_course(target_params, current_params)
           pid == compute_correction(my_controller, target_params, current_params)
           correction_vector == IF on_course THEN None ELSE pid.result
           corrected == IF on_course THEN drifted
                        ELSE apply_orbital_correction(drifted, correction_vector)
           altitude_change == corrected.altitude - initial_altitude
       IN  /\ my_satellite' = corrected
           /\ my_controller' = IF on_course THEN my_controller ELSE pid.self
           /\ correction_count' = tick_count(correction_count, on_course)
           /\ my_history' = tick_history(my_history, recording_history,
                                         correction_vector, now + 1, altitude_change)
           /\ my_telemetry' = tick_telemetry(my_telemetry, now + 1, current_params,
                                             target_params, correction_vector, on_course)
           /\ lastOut' = correction_vector
    /\ now' = now + 1
    /\ lastIn' = d
    /\ UNCHANGED <<target_altitude, target_inclination, target_eccentricity,
                   loop_is_running, recording_history, paused, status_text,
                   loop_thread, is_animating, steps, calls, lastOp>>

\* One iteration of the loop of main_loop that is not a pause poll, taken as
\* one step: the checks at the top of the loop and the body.
Tick(d) ==
    /\ workers > 0
    /\ loop_is_running
    /\ ~paused
    /\ now < MaxTicks
    /\ tick_body(d)
    /\ UNCHANGED <<workers, lifeVars, threadVars>>

\* main_loop: the loop condition is false and the thread ends.
WorkerExit ==
    /\ workers > 0
    /\ ~loop_is_running
    /\ workers' = workers - 1
    /\ UNCHANGED <<target_altitude, target_inclination, target_eccentricity,
                   my_satellite, my_controller, my_telemetry, my_history,
                   loop_is_running, recording_history, paused, status_text,
                   loop_thread, correction_count, is_animating, now, steps,
                   calls, lastOp, lastIn, lastOut, lifeVars, threadVars>>

_reset_pid_skip(controller) == controller

_reset_pid(controller) == reset(controller)

on_apply_target_count_reset(count) == 0

\* _on_apply_target: the counter is left as it is (its reset is commented out).
on_apply_target_count(count) == count

\* sliders are the values read from alt_slider, inc_slider and ecc_slider.
OnApplyTarget(sliders) ==
    /\ target_altitude' = sliders[1]
    /\ target_inclination' = sliders[2]
    /\ target_eccentricity' = sliders[3]
    /\ my_satellite' = apply_orbital_correction(my_satellite,
                           VSub(sliders, get_orbital_parameters(my_satellite)))
    /\ my_controller' = _reset_pid(my_controller)
    /\ correction_count' = on_apply_target_count(correction_count)
    /\ UNCHANGED <<my_telemetry, my_history, loop_is_running,
                   recording_history, paused, status_text, loop_thread,
                   is_animating, workers, now, steps, calls, lastOp, lastIn,
                   lastOut, lifeVars, threadVars>>

correct_orbit_to_default ==
    /\ my_satellite' = apply_orbital_correction(my_satellite,
                           VSub(DefaultTarget, get_orbital_parameters(my_satellite)))
    /\ target_altitude' = TARGET_ALTITUDE
    /\ target_inclination' = TARGET_INCLINATION
    /\ target_eccentricity' = TARGET_ECCENTRICITY
    /\ my_controller' = _reset_pid(my_controller)
    /\ correction_count' = 0
    /\ UNCHANGED <<my_telemetry, my_history, loop_is_running,
                   recording_history, paused, status_text, loop_thread,
                   is_animating, workers, now, steps, calls, lastOp, lastIn,
                   lastOut, lifeVars, threadVars>>

\* yes is the answer to the confirmation dialog.
clear_history(yes) ==
    /\ my_history' = IF yes THEN <<>> ELSE my_history
    /\ correction_count' = IF yes THEN 0 ELSE correction_count
    /\ UNCHANGED <<target_altitude, target_inclination, target_eccentricity,
                   my_satellite, my_controller, my_telemetry, loop_is_running,
                   recording_history, paused, status_text, loop_thread,
                   is_animating, workers, now, steps, calls, lastOp, lastIn,
                   lastOut, lifeVars, threadVars>>

toggle_loop_body_animation_inverted ==
    /\ IF ~loop_is_running
       THEN /\ workers < MaxWorkers
            /\ loop_is_running' = TRUE
            /\ paused' = FALSE
            /\ status_text' = "Running"
            /\ is_animating' = TRUE
            /\ loop_thread' = "Thread"
            /\ workers' = workers + 1
       ELSE /\ paused' = ~paused
            /\ status_text' = IF ~paused THEN "Paused" ELSE "Running"
            /\ is_animating' = ~paused
            /\ UNCHANGED <<loop_is_running, loop_thread, workers>>
    /\ UNCHANGED <<target_altitude, target_inclination, target_eccentricity,
                   my_satellite, my_controller, my_telemetry, my_history,
                   recording_history, correction_count, now, steps, calls,
                   lastOp, lastIn, lastOut>>

toggle_loop_body_respawn ==
    /\ workers < MaxWorkers
    /\ IF ~loop_is_running
       THEN /\ loop_is_running' = TRUE
            /\ paused' = FALSE
            /\ status_text' = "Running"
            /\ is_animating' = TRUE
       ELSE /\ paused' = ~paused
            /\ status_text' = IF ~paused THEN "Paused" ELSE "Running"
            /\ is_animating' = paused
            /\ UNCHANGED loop_is_running
    /\ loop_thread' = "Thread"
    /\ workers' = workers + 1
    /\ UNCHANGED <<target_altitude, target_inclination, target_eccentricity,
                   my_satellite, my_controller, my_telemetry, my_history,
                   recording_history, correction_count, now, steps, calls,
                   lastOp, lastIn, lastOut>>

toggle_loop_body_no_thread ==
    /\ IF ~loop_is_running
       THEN /\ loop_is_running' = TRUE
            /\ paused' = FALSE
            /\ status_text' = "Running"
            /\ is_animating' = TRUE
            /\ UNCHANGED <<loop_thread, workers>>
       ELSE /\ paused' = ~paused
            /\ status_text' = IF ~paused THEN "Paused" ELSE "Running"
            /\ is_animating' = paused
            /\ UNCHANGED <<loop_is_running, loop_thread, workers>>
    /\ UNCHANGED <<target_altitude, target_inclination, target_eccentricity,
                   my_satellite, my_controller, my_telemetry, my_history,
                   recording_history, correction_count, now, steps, calls,
                   lastOp, lastIn, lastOut>>

\* toggle_loop: a loop that is not running is started with a new thread of
\* main_loop; a running loop is paused or resumed.  The model starts no more
\* than MaxWorkers threads.
toggle_loop_body ==
    /\ IF ~loop_is_running
       THEN /\ workers < MaxWorkers
            /\ loop_is_running' = TRUE
            /\ paused' = FALSE
            /\ status_text' = "Running"
            /\ is_animating' = TRUE
            /\ loop_thread' = "Thread"
            /\ workers' = workers + 1
       ELSE /\ paused' = ~paused
            /\ status_text' = IF ~paused THEN "Paused" ELSE "Running"
            /\ is_animating' = paused
            /\ UNCHANGED <<loop_is_running, loop_thread, workers>>
    /\ UNCHANGED <<target_altitude, target_inclination, target_eccentricity,
                   my_satellite, my_controller, my_telemetry, my_history,
                   recording_history, correction_count, now, steps, calls,
                   lastOp, lastIn, lastOut>>

toggle_loop ==
    /\ toggle_loop_body
    /\ UNCHANGED <<lifeVars, threadVars>>

\* exited is the number of threads that see the flag and end while join
\* waits, at most one second; the wait ends without an error either way.
stop_loop(exited) ==
    /\ IF loop_is_running
       THEN /\ loop_is_running' = FALSE
            /\ exited <= workers
            /\ workers' = workers - exited
            /\ loop_thread' = "None"
            /\ paused' = TRUE
            /\ status_text' = "Stopped"
            /\ is_animating' = FALSE
       ELSE /\ exited = 0
            /\ UNCHANGED <<loop_is_running, workers, loop_thread, paused,
                           status_text, is_animating>>
    /\ UNCHANGED <<target_altitude, target_inclination, target_eccentricity,
                   my_satellite, my_controller, my_telemetry, my_history,
                   recording_history, correction_count, now, steps, calls,
                   lastOp, lastIn, lastOut, lifeVars, threadVars>>

toggle_history_recording ==
    /\ recording_history' = ~recording_history
    /\ UNCHANGED <<target_altitude, target_inclination, target_eccentricity,
                   my_satellite, my_controller, my_telemetry, my_history,
                   loop_is_running, paused, status_text, loop_thread,
                   correction_count, is_animating, workers, now, steps, calls,
                   lastOp, lastIn, lastOut, lifeVars, threadVars>>

Next ==
    \/ \E d \in Draws : Tick(d)
    \/ WorkerExit
    \/ \E sliders \in SliderValues : OnApplyTarget(sliders)
    \/ correct_orbit_to_default
    \/ \E yes \in BOOLEAN : clear_history(yes)
    \/ toggle_loop
    \/ \E exited \in 0..MaxWorkers : stop_loop(exited)
    \/ toggle_history_recording

Spec == Init /\ [][Next]_vars

----------------------------------------------------------------------------
(* Properties of a tick.  A step is a tick exactly when it advances now; the
   draws of its drift are lastIn'. *)

LiveTarget == <<target_altitude, target_inclination, target_eccentricity>>
Last(log) == log[Len(log)]

TickStep == now' = now + 1
Drifted == simulate_orbital_drift(my_satellite, lastIn')
PostDrift == get_orbital_parameters(Drifted)
TickError == VSub(LiveTarget, PostDrift)
\* The norm of the error of the tick is strictly below the threshold.
Below ==
    TickError[1] * TickError[1] + TickError[2] * TickError[2]
        + TickError[3] * TickError[3] < ON_COURSE_THRESHOLD * ON_COURSE_THRESHOLD

\* C6: in a tick whose error norm is strictly below the threshold the PID
\* state is unchanged, the satellite is left as the drift left it, the
\* correction counter is unchanged and the telemetry entry of the tick has
\* is_on_course true and no correction.
C6_OnCourseGating ==
    [][(TickStep /\ Below) =>
          /\ my_controller' = my_controller
          /\ my_satellite' = Drifted
          /\ correction_count' = correction_count
          /\ Last(my_telemetry').timestamp = now'
          /\ Last(my_telemetry').is_on_course = TRUE
          /\ Last(my_telemetry').correction_vector = None]_vars

\* The last tick was on course and nothing has moved the satellite since.
C6_Witness ==
    /\ now >= 1
    /\ Len(my_telemetry) >= 1
    /\ Last(my_telemetry).timestamp = now
    /\ Last(my_telemetry).is_on_course
    /\ Last(my_telemetry).correction_vector = None
    /\ get_orbital_parameters(my_satellite) = Last(my_telemetry).current_orbital_params
    /\ get_orbital_parameters(my_satellite) # LiveTarget
    /\ correction_count = 0

\* C7: in a tick whose error norm is at least the threshold the correction is
\* computed from the live target and the post-drift parameters and applied to
\* the satellite, the counter grows by exactly one, and the telemetry entry has
\* is_on_course false and that correction; with a positive altitude error and a
\* zero PID state the correction raises the altitude.
C7_OffCourseTick ==
    [][(TickStep /\ ~Below) =>
          LET pid == compute_correction(my_controller, LiveTarget, PostDrift)
          IN  /\ my_controller' = pid.self
              /\ my_satellite' = apply_orbital_correction(Drifted, pid.result)
              /\ correction_count' = correction_count + 1
              /\ Last(my_telemetry').timestamp = now'
              /\ Last(my_telemetry').is_on_course = FALSE
              /\ Last(my_telemetry').correction_vector = pid.result
              /\ Last(my_telemetry').correction_vector # None
              /\ (/\ TickError[1] > 0
                  /\ my_controller.integral = Zero3
                  /\ my_controller.previous_error = Zero3)
                    => my_satellite'.altitude > Drifted.altitude]_vars

\* The last tick fired a correction that raised the altitude.
C7_Witness ==
    /\ Len(my_telemetry) >= 1
    /\ Last(my_telemetry).timestamp = now
    /\ ~Last(my_telemetry).is_on_course
    /\ Last(my_telemetry).correction_vector # None
    /\ Last(my_telemetry).correction_vector[1] > 0
    /\ correction_count = 1
    /\ my_satellite.altitude > Last(my_telemetry).current_orbital_params[1]

\* C8: every tick appends exactly one entry to the telemetry log, with the
\* post-drift parameters of before the correction, the live target, the
\* correction or None, and the on-course flag.
C8_TelemetryEveryTick ==
    [][TickStep =>
          /\ loop_is_running /\ ~paused
          /\ Len(my_telemetry) < TELEMETRY_LOG_MAX_SIZE =>
                /\ Len(my_telemetry') = Len(my_telemetry) + 1
                /\ SubSeq(my_telemetry', 1, Len(my_telemetry)) = my_telemetry
          /\ Last(my_telemetry').timestamp = now'
          /\ Last(my_telemetry').current_orbital_params = PostDrift
          /\ Last(my_telemetry').target_orbital_params = LiveTarget
          /\ Last(my_telemetry').is_on_course = Below
          /\ Last(my_telemetry').correction_vector =
                IF Below THEN None
                ELSE compute_correction(my_controller, LiveTarget, PostDrift).result]_vars

\* Two ticks have run, the first on course and the second not, and each left
\* its entry.
C8_Witness ==
    /\ now = 2
    /\ Len(my_telemetry) = 2
    /\ my_telemetry[1].is_on_course
    /\ my_telemetry[1].correction_vector = None
    /\ ~my_telemetry[2].is_on_course
    /\ my_telemetry[2].correction_vector # None
    /\ my_telemetry[2].current_orbital_params[1] < my_satellite.altitude

\* C9 as claimed: a tick appends to the history log exactly when recording is
\* enabled and a correction fired in the tick.
C9_HistoryOnlyOnCorrection ==
    [][TickStep =>
          ((my_history' # my_history) <=> (recording_history /\ ~Below))]_vars

\* C9: a tick appends one entry to the history log, holding the change of
\* altitude over the tick, exactly when recording is enabled, whether or not
\* a correction fired; with recording disabled it leaves the log unchanged.
C9_HistoryWhenRecording ==
    [][TickStep =>
          IF recording_history
          THEN Len(my_history) < HISTORY_LOG_MAX_SIZE =>
                  my_history' = Append(my_history,
                      HistoryEntry(now', my_satellite'.altitude - my_satellite.altitude))
          ELSE my_history' = my_history]_vars

\* The history log holds an entry of a tick that was on course.
C9_Witness ==
    /\ Len(my_history) >= 1
    /\ \E i \in 1..Len(my_telemetry) :
          /\ my_telemetry[i].is_on_course
          /\ my_telemetry[i].timestamp = Last(my_history).timestamp
    /\ Last(my_history).altitude_change < 0

\* C10 as claimed: the correction counter never decreases.
C10_CounterNeverDecreases ==
    [][correction_count' >= correction_count]_vars

\* C10: the correction counter never decreases in a tick, a target update, a
\* pause, resume, stop or start; correct_orbit_to_default and a confirmed
\* clear_history set it to zero.
C10_CounterMonotoneUntilReset ==
    [][IF correct_orbit_to_default \/ clear_history(TRUE)
       THEN correction_count' = 0
       ELSE correction_count' >= correction_count]_vars

\* The counter is back at zero although the telemetry log holds a correction.
C10_Witness ==
    /\ correction_count = 0
    /\ \E i \in 1..Len(my_telemetry) : ~my_telemetry[i].is_on_course

PidZero(controller) ==
    /\ controller.integral = Zero3
    /\ controller.previous_error = Zero3

\* C19: _on_apply_target makes the slider values the live target, which is the
\* target the next tick logs and steers to, and leaves the integral and the
\* previous error of the controller as they were.
C19_SetTargetKeepsPid ==
    [][ /\ \A sliders \in SliderValues :
              OnApplyTarget(sliders) =>
                 /\ LiveTarget' = sliders
                 /\ my_controller'.integral = my_controller.integral
                 /\ my_controller'.previous_error = my_controller.previous_error
        /\ TickStep => Last(my_telemetry').target_orbital_params = LiveTarget ]_vars

\* C19, as the code has it: _on_apply_target makes the slider values the live
\* target, which is the target the next tick logs and steers to, and itself
\* resets the controller: the integral and the previous error are zero after
\* it, the gains are the same.
C19_SetTargetResetsPid ==
    [][ /\ \A sliders \in SliderValues :
              OnApplyTarget(sliders) =>
                 /\ LiveTarget' = sliders
                 /\ PidZero(my_controller')
                 /\ my_controller'.Kp = my_controller.Kp
                 /\ my_controller'.Ki = my_controller.Ki
                 /\ my_controller'.Kd = my_controller.Kd
        /\ TickStep => Last(my_telemetry').target_orbital_params = LiveTarget ]_vars

\* A new target applied after a tick that corrected towards the default one:
\* the controller, which that tick left with an integral, is at zero.
C19_Witness ==
    /\ LiveTarget # DefaultTarget
    /\ Len(my_telemetry) >= 1
    /\ Last(my_telemetry).target_orbital_params = DefaultTarget
    /\ ~Last(my_telemetry).is_on_course
    /\ PidZero(my_controller)

\* C20: a step that is not a tick and moves the satellite or changes the live
\* target (_on_apply_target, correct_orbit_to_default) leaves the controller
\* with zero integral and zero previous error, and no other step outside a
\* tick touches the controller, so the first compute_correction after the jump
\* starts from zero.
C20_ResetWithJump ==
    [][ ~TickStep =>
          /\ (my_satellite' # my_satellite \/ LiveTarget' # LiveTarget) =>
                PidZero(my_controller')
          /\ (my_controller' = my_controller \/ PidZero(my_controller')) ]_vars

\* The satellite put back on the default orbit after a tick that corrected.
C20_Witness ==
    /\ Len(my_telemetry) >= 1
    /\ ~Last(my_telemetry).is_on_course
    /\ my_satellite = Satellite(TARGET_ALTITUDE, TARGET_INCLINATION, TARGET_ECCENTRICITY)
    /\ LiveTarget = DefaultTarget
    /\ correction_count = 0
    /\ PidZero(my_controller)

\* The satellite sitting on a target: the target with inclination and
\* eccentricity brought into their ranges, as apply_orbital_correction does.
OnTarget(target) ==
    Satellite(target[1], clip(target[2], 0, INC_MAX), clip(target[3], 0, ECC_MAX))

\* C30: a tick that begins with the satellite on the live target, as at the
\* first start, after _on_apply_target and after correct_orbit_to_default, is
\* on course whatever the drift draws: no correction is computed or applied
\* and the counter stays.
C30_FirstTickOnCourse ==
    [][ (TickStep /\ my_satellite = OnTarget(LiveTarget)) =>
           /\ Last(my_telemetry').is_on_course
           /\ Last(my_telemetry').correction_vector = None
           /\ my_controller' = my_controller
           /\ correction_count' = correction_count
           /\ my_satellite' = Drifted ]_vars

\* The tick after a target was applied whose eccentricity the satellite cannot
\* reach, with the draws that take the satellite furthest from it.
C30_Witness ==
    /\ Len(my_telemetry) >= 1
    /\ Last(my_telemetry).timestamp = now
    /\ Last(my_telemetry).target_orbital_params =
          <<7500 * Unit, 180 * Unit, (999 * Unit) \div 1000>>
    /\ Last(my_telemetry).current_orbital_params =
          <<7500 * Unit - (5 * Unit) \div 100, 180 * Unit - Unit \div 100,
            (99 * Unit) \div 100 - Unit \div 1000>>
    /\ Last(my_telemetry).is_on_course

----------------------------------------------------------------------------
(* The Satellite alone: any sequence of drifts and corrections from any
   in-range state. *)

\* Vectors handed to apply_orbital_correction: a small one, two that leave
\* the ranges on either side, and two that do not have three components.
SmallCorrection == <<(15 * Unit) \div 100, Unit \div 100, -(Unit \div 1000)>>
HugeCorrection == <<100 * Unit, 200 * Unit, 2 * Unit>>
CorrectionVectors ==
    {SmallCorrection, HugeCorrection,
     <<-(100 * Unit), -(200 * Unit), -(2 * Unit)>>,
     <<Unit, Unit>>, <<Unit, Unit, Unit, Unit>>}

InRangeSatellites ==
    {Satellite(TARGET_ALTITUDE, i, e) :
        i \in {0, TARGET_INCLINATION, INC_MAX}, e \in {0, TARGET_ECCENTRICITY, ECC_MAX}}

InitSat ==
    /\ InitApp
    /\ my_satellite \in InRangeSatellites

SatDrift(d) ==
    /\ steps < MaxOps
    /\ my_satellite' = simulate_orbital_drift(my_satellite, d)
    /\ steps' = steps + 1
    /\ lastOp' = "simulate_orbital_drift"
    /\ lastIn' = d
    /\ UNCHANGED <<appVars, my_controller, my_telemetry, my_history, lastOut,
                   calls>>

SatCorrect(v) ==
    /\ steps < MaxOps
    /\ my_satellite' = apply_orbital_correction(my_satellite, v)
    /\ steps' = steps + 1
    /\ lastOp' = "apply_orbital_correction"
    /\ lastIn' = v
    /\ UNCHANGED <<appVars, my_controller, my_telemetry, my_history, lastOut,
                   calls>>

NextSat ==
    \/ \E d \in Draws : SatDrift(d)
    \/ \E v \in CorrectionVectors : SatCorrect(v)

SpecSat == InitSat /\ [][NextSat]_vars

\* C1: after every drift and every correction, from any in-range state,
\* inclination is in [0, 180] and eccentricity is in [0, 0.99].
C1_ClampInvariant ==
    /\ 0 <= my_satellite.inclination /\ my_satellite.inclination <= INC_MAX
    /\ 0 <= my_satellite.eccentricity /\ my_satellite.eccentricity <= ECC_MAX

\* A correction that would leave both ranges has been applied after a drift
\* and both parameters sit on their upper bounds.
C1_Witness ==
    /\ lastOp = "apply_orbital_correction"
    /\ lastIn = HugeCorrection
    /\ steps >= 2
    /\ my_satellite.inclination = INC_MAX
    /\ my_satellite.eccentricity = ECC_MAX

SatStep(name) == lastOp' = name /\ steps' = steps + 1
Max(a, b) == IF a > b THEN a ELSE b
Least(a, b) == IF a < b THEN a ELSE b

\* C22: apply_orbital_correction with a vector that does not have exactly
\* three components changes neither altitude nor inclination nor eccentricity,
\* and returns normally.
C22_WrongLengthNoOp ==
    [][ (SatStep("apply_orbital_correction") /\ Len(lastIn') # 3) =>
           /\ my_satellite'.altitude = my_satellite.altitude
           /\ my_satellite'.inclination = my_satellite.inclination
           /\ my_satellite'.eccentricity = my_satellite.eccentricity ]_vars

\* A vector of two components handed to a satellite that has drifted.
C22_Witness ==
    /\ lastOp = "apply_orbital_correction"
    /\ Len(lastIn) = 2
    /\ steps >= 2
    /\ my_satellite.altitude < TARGET_ALTITUDE

\* C23: apply_orbital_correction with a vector c of three components adds c[0]
\* to the altitude, which is never clamped, and sets inclination to
\* inclination + c[1] brought into [0, 180] and eccentricity to
\* eccentricity + c[2] brought into [0, 0.99]; nothing is rejected.
C23_CorrectionArithmetic ==
    [][ (SatStep("apply_orbital_correction") /\ Len(lastIn') = 3) =>
           /\ my_satellite'.altitude = my_satellite.altitude + lastIn'[1]
           /\ my_satellite'.inclination =
                 Max(0, Least(my_satellite.inclination + lastIn'[2], 180 * Unit))
           /\ my_satellite'.eccentricity =
                 Max(0, Least(my_satellite.eccentricity + lastIn'[3],
                              (99 * Unit) \div 100)) ]_vars

\* A correction that leaves both ranges at the top: the altitude has taken
\* all of it, the other two sit on their bounds.
C23_Witness ==
    /\ lastOp = "apply_orbital_correction"
    /\ lastIn = HugeCorrection
    /\ my_satellite.altitude >= TARGET_ALTITUDE + 99 * Unit
    /\ my_satellite.inclination = 180 * Unit
    /\ my_satellite.eccentricity = (99 * Unit) \div 100

\* C24: a drift lowers the altitude by an amount in [0.01, 0.05], moves the
\* inclination by at most 0.01 and the eccentricity by at most 0.001, is a
\* function of the state before it and of its own three draws only, and leaves
\* the controller, the live target and both logs as they were.
C24_DriftBounds ==
    [][ SatStep("simulate_orbital_drift") =>
           /\ my_satellite'.altitude < my_satellite.altitude
           /\ my_satellite.altitude - my_satellite'.altitude >= Unit \div 100
           /\ my_satellite.altitude - my_satellite'.altitude <= (5 * Unit) \div 100
           /\ Abs(my_satellite'.inclination - my_satellite.inclination) <= Unit \div 100
           /\ Abs(my_satellite'.eccentricity - my_satellite.eccentricity) <= Unit \div 1000
           /\ my_satellite' = simulate_orbital_drift(my_satellite, lastIn')
           /\ UNCHANGED <<my_controller, target_altitude, target_inclination,
                          target_eccentricity, my_telemetry, my_history>> ]_vars

\* Two drifts in a row, the second with the largest loss of altitude.
C24_Witness ==
    /\ lastOp = "simulate_orbital_drift"
    /\ steps >= 2
    /\ lastIn[1] = (5 * Unit) \div 100
    /\ my_satellite.altitude <= TARGET_ALTITUDE - (6 * Unit) \div 100

----------------------------------------------------------------------------
(* The PIDController alone: any sequence of compute_correction and reset
   calls on a controller constructed with the configured gains. *)

PidTargets == SliderValues
PidCurrents ==
    {<<7990 * Unit, 45 * Unit, Unit \div 5>>,
     DefaultTarget,
     <<8003 * Unit, (445 * Unit) \div 10, Unit \div 4>>}

Call(op, target, current, result) ==
    [op |-> op, target |-> target, current |-> current, result |-> result]

InitPID == Init

PidCompute(t, c) ==
    /\ steps < MaxCalls
    /\ LET r == compute_correction(my_controller, t, c)
       IN  /\ my_controller' = r.self
           /\ lastOut' = r.result
           /\ calls' = Append(calls, Call("compute_correction", t, c, r.result))
    /\ steps' = steps + 1
    /\ lastOp' = "compute_correction"
    /\ lastIn' = <<t, c>>
    /\ UNCHANGED <<appVars, my_satellite, my_telemetry, my_history>>

PidReset ==
    /\ steps < MaxCalls
    /\ my_controller' = reset(my_controller)
    /\ calls' = Append(calls, Call("reset", None, None, None))
    /\ steps' = steps + 1
    /\ lastOp' = "reset"
    /\ lastIn' = None
    /\ lastOut' = None
    /\ UNCHANGED <<appVars, my_satellite, my_telemetry, my_history>>

NextPID ==
    \/ \E t \in PidTargets, c \in PidCurrents : PidCompute(t, c)
    \/ PidReset

SpecPID == InitPID /\ [][NextPID]_vars

\* The compute_correction calls made since the last reset (or construction).
RECURSIVE SinceReset(_)
SinceReset(cs) ==
    IF cs = <<>> \/ cs[Len(cs)].op = "reset" THEN <<>>
    ELSE Append(SinceReset(SubSeq(cs, 1, Len(cs) - 1)), cs[Len(cs)])

ErrorOf(call) == [i \in 1..3 |-> call.target[i] - call.current[i]]

RECURSIVE SumErrors(_)
SumErrors(cs) ==
    IF cs = <<>> THEN Zero3
    ELSE LET rest == SumErrors(Tail(cs))
             e == ErrorOf(Head(cs))
         IN  [i \in 1..3 |-> e[i] + rest[i]]

\* C2: after any sequence of calls the integral is the plain sum of the errors
\* seen since the last reset, previous_error is the error of the latest call,
\* and the list returned is Kp*error + Ki*integral + Kd*(error - error of the
\* call before, zero for the first call), component by component.
C2_PidAccumulates ==
    LET cs == SinceReset(calls)
        n == Len(cs)
        sum == SumErrors(cs)
        e == IF n = 0 THEN Zero3 ELSE ErrorOf(cs[n])
        before == IF n <= 1 THEN Zero3 ELSE ErrorOf(cs[n - 1])
    IN  /\ my_controller.integral = sum
        /\ my_controller.previous_error = e
        /\ n > 0 =>
             \A i \in 1..3 :
                GainDen * cs[n].result[i] =
                    my_controller.Kp * e[i] + my_controller.Ki * sum[i]
                    + my_controller.Kd * (e[i] - before[i])

\* Three calls without a reset, the integral beyond 20 and a derivative that
\* is not the error.
C2_Witness ==
    /\ Len(SinceReset(calls)) = 3
    /\ lastOp = "compute_correction"
    /\ Abs(my_controller.integral[1]) > 20 * Unit
    /\ my_controller.integral # my_controller.previous_error
    /\ ErrorOf(calls[2]) # Zero3
    /\ ErrorOf(calls[2]) # ErrorOf(calls[3])

\* C3: the first call after construction returns (Kp + Ki + Kd) * error in
\* every component; for target (8000, 45, 0.2) and current (7990, 45, 0.2)
\* that is (15.0, 0, 0).
C3_FirstCall ==
    (Len(calls) = 1 /\ calls[1].op = "compute_correction") =>
        /\ \A i \in 1..3 :
              GainDen * lastOut[i] =
                  (PID_GAINS.Kp + PID_GAINS.Ki + PID_GAINS.Kd) * ErrorOf(calls[1])[i]
        /\ (calls[1].target = DefaultTarget
            /\ calls[1].current = <<7990 * Unit, 45 * Unit, Unit \div 5>>)
              => lastOut = <<15 * Unit, 0, 0>>

C3_Witness ==
    /\ Len(calls) = 1
    /\ calls[1].target = DefaultTarget
    /\ calls[1].current = <<7990 * Unit, 45 * Unit, Unit \div 5>>
    /\ lastOut = <<15 * Unit, 0, 0>>

\* C4: a call, a reset and the same call again returns what the first call
\* returned; a reset leaves the controller as it was constructed: integral
\* and previous_error zero, gains as configured.
C4_ResetIdempotent ==
    /\ lastOp = "reset" =>
          my_controller = PIDController(PID_GAINS.Kp, PID_GAINS.Ki, PID_GAINS.Kd)
    /\ (/\ Len(calls) = 3
        /\ calls[1].op = "compute_correction"
        /\ calls[2].op = "reset"
        /\ calls[3].op = "compute_correction"
        /\ calls[3].target = calls[1].target
        /\ calls[3].current = calls[1].current)
          => calls[3].result = calls[1].result

C4_Witness ==
    /\ Len(calls) = 3
    /\ calls[1].op = "compute_correction"
    /\ calls[2].op = "reset"
    /\ calls[3].op = "compute_correction"
    /\ calls[3].target = calls[1].target
    /\ calls[3].current = calls[1].current
    /\ calls[3].result # Zero3

----------------------------------------------------------------------------
(* The two logs alone: entry number n is stamped n and appended to both. *)

InitLog == Init

LogEntries ==
    /\ steps < TELEMETRY_LOG_MAX_SIZE + MaxExtra
    /\ steps' = steps + 1
    /\ my_telemetry' = log_status(my_telemetry,
                           TelemetryEntry(steps + 1, DefaultTarget, DefaultTarget, None, TRUE))
    /\ my_history' = record_drift(my_history, HistoryEntry(steps + 1, 0))
    /\ lastOp' = "log_status"
    /\ UNCHANGED <<appVars, my_satellite, my_controller, lastIn, lastOut,
                   calls>>

NextLog == LogEntries

SpecLog == InitLog /\ [][NextLog]_vars

Min(a, b) == IF a < b THEN a ELSE b

\* After n appends a log of capacity c holds the last Min(n, c) entries
\* appended, oldest first.
LastEntries(log, n, c) ==
    /\ Len(log) = Min(n, c)
    /\ \A i \in 1..Len(log) : log[i].timestamp = n - Len(log) + i

\* C5: neither log ever holds more than its capacity (telemetry 1000, history
\* 500); after capacity + k appends a log holds exactly capacity entries, the
\* oldest k are gone and the others are in the order of their insertion.
C5_RingBuffers ==
    /\ Len(my_telemetry) <= TELEMETRY_LOG_MAX_SIZE
    /\ Len(my_history) <= HISTORY_LOG_MAX_SIZE
    /\ LastEntries(my_telemetry, steps, TELEMETRY_LOG_MAX_SIZE)
    /\ LastEntries(my_history, steps, HISTORY_LOG_MAX_SIZE)

\* One entry more than the telemetry log holds has been appended: the first
\* entry is gone from it, and the first 501 from the history log.
C5_Witness ==
    /\ steps = TELEMETRY_LOG_MAX_SIZE + 1
    /\ Len(my_telemetry) = TELEMETRY_LOG_MAX_SIZE
    /\ my_telemetry[1].timestamp = 2
    /\ Len(my_history) = HISTORY_LOG_MAX_SIZE
    /\ my_history[1].timestamp = HISTORY_LOG_MAX_SIZE + 2

\* ---------------------------------------------------------------------------
\* The life cycle of the loop: the threads of main_loop and the GUI thread,
\* interleaved.  An iteration of main_loop is two steps, the checks at the top
\* of the loop and the body, and stop_loop is two steps, before and after its
\* wait in join, so that a tick can be in flight when the GUI thread acts and
\* a thread can still be alive when join gives up.

\* What the life cycle operations never touch.
simVars == <<target_altitude, target_inclination, target_eccentricity, my_satellite,
             my_controller, my_telemetry, my_history, recording_history,
             correction_count, now, steps, calls, lastOp, lastIn, lastOut,
             threadVars>>

InitLife == Init

LifeTickBegin_no_pause_check ==
    /\ workers - in_tick > 0
    /\ loop_is_running
    /\ now + in_tick < MaxTicks
    /\ in_tick' = in_tick + 1
    /\ lastStep' = "begin"
    /\ UNCHANGED <<simVars, loop_is_running, paused, status_text, loop_thread,
                   is_animating, workers, joining>>

\* main_loop: a thread at the top of the loop finds the loop running and not
\* paused, and enters the body.
LifeTickBegin ==
    /\ workers - in_tick > 0
    /\ loop_is_running
    /\ ~paused
    /\ now + in_tick < MaxTicks
    /\ in_tick' = in_tick + 1
    /\ lastStep' = "begin"
    /\ UNCHANGED <<simVars, loop_is_running, paused, status_text, loop_thread,
                   is_animating, workers, joining>>

\* main_loop: a thread in the body runs it to the end of the iteration.
LifeTickEnd(d) ==
    /\ in_tick > 0
    /\ tick_body(d)
    /\ in_tick' = in_tick - 1
    /\ lastStep' = "tick"
    /\ UNCHANGED <<workers, joining, threadVars>>

\* main_loop: a thread at the top of the loop finds the loop running and
\* paused, sleeps a tenth of a second and goes back to the top.
LifePausePoll ==
    /\ workers - in_tick > 0
    /\ loop_is_running
    /\ paused
    /\ lastStep' = "poll"
    /\ UNCHANGED <<simVars, loop_is_running, paused, status_text, loop_thread,
                   is_animating, workers, in_tick, joining>>

LifeWorkerExit_unless_paused ==
    /\ workers - in_tick > 0
    /\ ~loop_is_running
    /\ ~paused
    /\ workers' = workers - 1
    /\ lastStep' = "exit"
    /\ UNCHANGED <<simVars, loop_is_running, paused, status_text, loop_thread,
                   is_animating, in_tick, joining>>

\* main_loop: a thread at the top of the loop finds the flag false and ends.
LifeWorkerExit ==
    /\ workers - in_tick > 0
    /\ ~loop_is_running
    /\ workers' = workers - 1
    /\ lastStep' = "exit"
    /\ UNCHANGED <<simVars, loop_is_running, paused, status_text, loop_thread,
                   is_animating, in_tick, joining>>

\* toggle_loop, called on the GUI thread, which is not waiting in join.
LifeToggle ==
    /\ ~joining
    /\ toggle_loop_body
    /\ lastStep' = "toggle_loop"
    /\ UNCHANGED <<in_tick, joining, threadVars>>

LifeStopBegin_unguarded ==
    /\ ~joining
    /\ loop_is_running' = FALSE
    /\ joining' = TRUE
    /\ lastStep' = "join"
    /\ UNCHANGED <<simVars, paused, status_text, loop_thread, is_animating,
                   workers, in_tick>>

\* stop_loop up to its wait: on a running loop the flag is cleared and the GUI
\* thread waits in join; otherwise the call returns having done nothing.
LifeStopBegin ==
    /\ ~joining
    /\ IF loop_is_running
       THEN /\ loop_is_running' = FALSE
            /\ joining' = TRUE
            /\ lastStep' = "join"
       ELSE /\ lastStep' = "stop_loop"
            /\ UNCHANGED <<loop_is_running, joining>>
    /\ UNCHANGED <<simVars, paused, status_text, loop_thread, is_animating,
                   workers, in_tick>>

LifeStopEnd_return_if_alive ==
    /\ joining
    /\ joining' = FALSE
    /\ lastStep' = "stop_loop"
    /\ IF workers > 0
       THEN UNCHANGED <<loop_thread, paused, status_text, is_animating>>
       ELSE /\ loop_thread' = "None"
            /\ paused' = TRUE
            /\ status_text' = "Stopped"
            /\ is_animating' = FALSE
    /\ UNCHANGED <<simVars, loop_is_running, workers, in_tick>>

\* stop_loop from the return of join, which comes when the thread has ended or
\* after one second, whichever is first, and raises nothing in either case.
LifeStopEnd ==
    /\ joining
    /\ joining' = FALSE
    /\ loop_thread' = "None"
    /\ paused' = TRUE
    /\ status_text' = "Stopped"
    /\ is_animating' = FALSE
    /\ lastStep' = "stop_loop"
    /\ UNCHANGED <<simVars, loop_is_running, workers, in_tick>>

NextLife ==
    \/ LifeTickBegin
    \/ \E d \in Draws : LifeTickEnd(d)
    \/ LifePausePoll
    \/ LifeWorkerExit
    \/ LifeToggle
    \/ LifeStopBegin
    \/ LifeStopEnd

\* The scheduler keeps running the threads of main_loop, and the wait of join
\* is bounded by its timeout.
SpecLife ==
    /\ InitLife
    /\ [][NextLife]_vars
    /\ WF_vars(\E d \in Draws : LifeTickEnd(d))
    /\ WF_vars(LifeWorkerExit)
    /\ WF_vars(LifeStopEnd)

\* C11: at every moment at most one thread of main_loop is alive, also after a
\* stop_loop whose join gave up before the thread had ended, followed by a
\* start.  The code starts a second thread there while the first, which finds
\* the flag true again, goes on ticking.
C11_OneWorker == workers <= 1

\* C12: only the thread of main_loop writes the satellite, the controller and
\* the two logs; no operation of the GUI thread changes any of them.  In the
\* code _on_apply_target and correct_orbit_to_default move the satellite and
\* reset the controller, and clear_history empties the history log.
C12_WorkerSoleWriter ==
    [][ (\/ my_satellite' # my_satellite
         \/ my_controller' # my_controller
         \/ my_telemetry' # my_telemetry
         \/ my_history' # my_history) => TickStep ]_vars

\* C13: while the loop is paused no thread of main_loop enters the body of an
\* iteration, and once none is inside one (the pause has taken effect) the
\* satellite, the controller, the counter, the two logs and the tick count
\* stay as they are until the loop is resumed: the thread only polls.
C13_PausedDoesNotAdvance ==
    [][ paused =>
          /\ in_tick' <= in_tick
          /\ in_tick = 0 =>
                UNCHANGED <<my_satellite, my_controller, correction_count,
                            my_telemetry, my_history, now>> ]_vars

\* A loop that has ticked, was paused, and whose thread is polling.
C13_Witness ==
    /\ loop_is_running
    /\ paused
    /\ workers = 1
    /\ in_tick = 0
    /\ now >= 1
    /\ lastStep = "poll"

\* C14: toggle_loop on a loop that is not running makes it running and not
\* paused and starts exactly one thread of main_loop; on a running loop it only
\* flips paused, with the status following, and neither ends a thread nor
\* starts one.
C14_LifecycleTransitions ==
    [][ lastStep' = "toggle_loop" =>
          IF ~loop_is_running
          THEN /\ loop_is_running'
               /\ ~paused'
               /\ status_text' = "Running"
               /\ loop_thread' = "Thread"
               /\ workers' = workers + 1
          ELSE /\ loop_is_running'
               /\ paused' = ~paused
               /\ status_text' = (IF paused THEN "Running" ELSE "Paused")
               /\ workers' = workers
               /\ in_tick' = in_tick ]_vars

\* A started loop that has just been paused, its one thread alive.
C14_Witness ==
    /\ lastStep = "toggle_loop"
    /\ loop_is_running
    /\ paused
    /\ status_text = "Paused"
    /\ workers = 1

\* C15: once stop_loop has returned and the status is Stopped, no later
\* operation makes the loop running or paused-but-running again or starts a
\* thread of main_loop.
C15_StoppedTerminal ==
    [][ status_text = "Stopped" =>
          /\ ~loop_is_running'
          /\ status_text' = "Stopped"
          /\ workers' <= workers ]_vars

\* C15, as the code has it: after stop_loop has returned the loop stays
\* stopped, with no thread started, until toggle_loop is called; that call
\* makes it running again and starts one new thread of main_loop.
C15_StoppedUntilStart ==
    [][ status_text = "Stopped" =>
          IF lastStep' = "toggle_loop"
          THEN /\ loop_is_running'
               /\ ~paused'
               /\ status_text' = "Running"
               /\ loop_thread' = "Thread"
               /\ workers' = workers + 1
          ELSE /\ ~loop_is_running'
               /\ paused'
               /\ status_text' = "Stopped"
               /\ loop_thread' = "None"
               /\ workers' <= workers ]_vars

\* A loop started again after a stop_loop that returned before the first
\* thread had ended.
C15_Witness ==
    /\ lastStep = "toggle_loop"
    /\ loop_is_running
    /\ status_text = "Running"
    /\ workers = 2

\* C16: stop_loop on a running loop, paused or not, clears the flag and waits
\* in join; the wait always ends, and the call then leaves the loop stopped,
\* with the flag false, paused true, the thread handle cleared and the status
\* Stopped, whether or not the thread has ended by then (the threads are left
\* as they are, and nothing is raised).
C16_StopCompletes ==
    /\ [][ /\ (loop_is_running /\ lastStep' = "join") =>
                (~loop_is_running' /\ joining')
           /\ (joining /\ ~joining') =>
                /\ ~loop_is_running'
                /\ paused'
                /\ loop_thread' = "None"
                /\ status_text' = "Stopped"
                /\ ~is_animating'
                /\ workers' = workers
                /\ in_tick' = in_tick ]_vars
    /\ (joining ~> (~joining /\ status_text = "Stopped"))

\* stop_loop has returned while a thread of main_loop is still inside a tick.
C16_Witness ==
    /\ lastStep = "stop_loop"
    /\ ~joining
    /\ status_text = "Stopped"
    /\ ~loop_is_running
    /\ paused
    /\ loop_thread = "None"
    /\ workers = 1
    /\ in_tick = 1

\* C17: while the flag is false, as stop_loop leaves it until the next start,
\* no thread of main_loop enters the body of an iteration, and the tick count
\* grows only by a thread finishing the iteration it was in; and when the
\* flag is false with threads alive, either they all end or the loop is
\* started again.
C17_Cancellation ==
    /\ [][ ~loop_is_running =>
              /\ in_tick' <= in_tick
              /\ now' # now => (now' = now + 1 /\ in_tick' = in_tick - 1) ]_vars
    /\ ((~loop_is_running /\ workers > 0) ~> (workers = 0 \/ loop_is_running))

\* The thread of a loop that has ticked has ended after a stop_loop.
C17_Witness ==
    /\ lastStep = "exit"
    /\ ~loop_is_running
    /\ workers = 0
    /\ in_tick = 0
    /\ now >= 1

\* C18: on a loop that is not running, never started or already stopped, a
\* call of stop_loop changes no life cycle flag, not the status, the thread
\* handle or the threads, and nothing of the simulation; only toggle_loop
\* changes the life cycle of such a loop.
C18_StopIdempotent ==
    [][ (~loop_is_running /\ ~joining) =>
          /\ lastStep' # "toggle_loop" =>
                UNCHANGED <<loop_is_running, paused, status_text, loop_thread,
                            is_animating, joining>>
          /\ lastStep' = "stop_loop" =>
                UNCHANGED <<simVars, workers, in_tick>> ]_vars

\* stop_loop has been called on a loop that was never started.
C18_Witness ==
    /\ lastStep = "stop_loop"
    /\ ~loop_is_running
    /\ paused
    /\ status_text = "Paused"
    /\ loop_thread = "None"
    /\ workers = 0

\* C29: whenever the GUI thread is not inside stop_loop, that is after every
\* toggle_loop and every stop_loop has returned, the status is "Running"
\* exactly when the loop is running and not paused, the orbit animation is on
\* exactly then, and a loop that is not running is paused.
C29_LifecycleConsistent ==
    ~joining =>
       /\ (status_text = "Running") <=> (loop_is_running /\ ~paused)
       /\ is_animating <=> (loop_is_running /\ ~paused)
       /\ ~loop_is_running => paused

\* A loop that has ticked and has just been resumed, or started again.
C29_Witness ==
    /\ lastStep = "toggle_loop"
    /\ loop_is_running
    /\ ~paused
    /\ status_text = "Running"
    /\ is_animating
    /\ workers = 1
    /\ in_tick = 0
    /\ now >= 1
    /\ Last(my_telemetry).timestamp = now

\* ---------------------------------------------------------------------------
\* The two threads statement by statement: one thread of main_loop and the
\* GUI thread, which runs the button callbacks.  Neither holds a lock, so the
\* interpreter can switch from one to the other between any two of their
\* statements.  The model lets it switch where the steps below begin and takes
\* the statements of one step together, which leaves interleavings out and
\* adds none.

\* Upper bound on the callbacks the GUI thread runs in this specification.
MaxCallbacks == 2

flagVars == <<loop_is_running, paused, status_text, loop_thread, is_animating, workers>>
otherVars == <<lastOp, lastIn, lastOut, calls, in_tick, joining, lastStep>>

\* The draws of the drift in this specification.
ThreadDraws == {<<(5 * Unit) \div 100, Unit \div 100, Unit \div 1000>>}

InitThreads == Init

\* toggle_loop on a loop that is not running: the thread of main_loop starts.
ThreadStart ==
    /\ upc = "idle"
    /\ ~loop_is_running
    /\ toggle_loop_body
    /\ UNCHANGED <<lifeVars, threadVars>>

\* main_loop, lines 586-597: the checks at the top of the loop, the drift and
\* the reading of the parameters of the satellite.
ThreadTickBegin(d) ==
    /\ wpc = "top"
    /\ workers > 0
    /\ loop_is_running
    /\ ~paused
    /\ now < MaxTicks
    /\ my_satellite' = simulate_orbital_drift(my_satellite, d)
    /\ wloc' = [initial_altitude |-> my_satellite.altitude,
                current_params |-> get_orbital_parameters(my_satellite'),
                target_params |-> <<>>,
                is_on_course |-> FALSE,
                integral |-> Zero3,
                correction_vector |-> None,
                count |-> 0]
    /\ scheduled' = <<>>
    /\ wpc' = "target_altitude"
    /\ UNCHANGED <<target_altitude, target_inclination, target_eccentricity,
                   my_controller, my_telemetry, my_history, recording_history,
                   correction_count, now, steps, flagVars, otherVars, upc, uloc,
                   counted>>

\* What a step of the thread of main_loop that only reads leaves alone.
readFrame == <<target_altitude, target_inclination, target_eccentricity, my_satellite,
               my_controller, my_telemetry, my_history, recording_history,
               correction_count, now, steps, flagVars, otherVars, upc, uloc,
               scheduled, counted>>

\* main_loop, line 598: the first element of the tuple, self.target_altitude
ThreadReadAltitude ==
    /\ wpc = "target_altitude"
    /\ wloc' = [wloc EXCEPT !.target_params = <<target_altitude>>]
    /\ wpc' = "target_inclination"
    /\ UNCHANGED readFrame

\* main_loop, line 598: the second element, self.target_inclination
ThreadReadInclination ==
    /\ wpc = "target_inclination"
    /\ wloc' = [wloc EXCEPT !.target_params = Append(@, target_inclination)]
    /\ wpc' = "target_eccentricity"
    /\ UNCHANGED readFrame

\* main_loop, lines 598-603: the third element, self.target_eccentricity, and
\* the decision whether the satellite is on course.
ThreadReadEccentricity ==
    /\ wpc = "target_eccentricity"
    /\ LET target_params == Append(wloc.target_params, target_eccentricity)
           on_course == is_on_course(target_params, wloc.current_params)
       IN  /\ wloc' = [wloc EXCEPT !.target_params = target_params,
                                   !.is_on_course = on_course]
           /\ wpc' = IF on_course THEN "record_drift" ELSE "integral"
    /\ UNCHANGED readFrame

\* compute_correction, lines 51-52: the error, and `self._integral += error`
\* up to the addition, which numpy does in place in the array that
\* self._integral named when the statement began; the thread holds that array.
ThreadIntegral ==
    /\ wpc = "integral"
    /\ LET error == VSub(wloc.target_params, wloc.current_params)
       IN  /\ my_controller' = [my_controller EXCEPT !.integral = VAdd(@, error)]
           /\ wloc' = [wloc EXCEPT !.integral = VAdd(my_controller.integral, error)]
    /\ wpc' = "store_integral"
    /\ UNCHANGED <<target_altitude, target_inclination, target_eccentricity,
                   my_satellite, my_telemetry, my_history, recording_history,
                   correction_count, now, steps, flagVars, otherVars, upc, uloc,
                   scheduled, counted>>

\* compute_correction from the store that ends `self._integral += error`,
\* which binds self._integral to the array the thread holds, to the return,
\* and apply_orbital_correction with the vector returned (main.py:604-605).
ThreadCorrect ==
    /\ wpc = "store_integral"
    /\ LET error == VSub(wloc.target_params, wloc.current_params)
           held == [my_controller EXCEPT !.integral = VSub(wloc.integral, error)]
           pid == compute_correction(held, wloc.target_params, wloc.current_params)
       IN  /\ my_controller' = pid.self
           /\ my_satellite' = apply_orbital_correction(my_satellite, pid.result)
           /\ wloc' = [wloc EXCEPT !.correction_vector = pid.result]
    /\ wpc' = "count_load"
    /\ UNCHANGED <<target_altitude, target_inclination, target_eccentricity,
                   my_telemetry, my_history, recording_history, correction_count,
                   now, steps, flagVars, otherVars, upc, uloc, scheduled, counted>>

\* main.py:606, `self.correction_count += 1`: the load of the attribute
ThreadCountLoad ==
    /\ wpc = "count_load"
    /\ wloc' = [wloc EXCEPT !.count = correction_count]
    /\ wpc' = "count_store"
    /\ UNCHANGED readFrame

\* main.py:606, `self.correction_count += 1`: the store of the value loaded
\* plus one
ThreadCountStore ==
    /\ wpc = "count_store"
    /\ correction_count' = tick_count(wloc.count, FALSE)
    /\ counted' = counted + 1
    /\ wpc' = "record_drift"
    /\ UNCHANGED <<target_altitude, target_inclination, target_eccentricity,
                   my_satellite, my_controller, my_telemetry, my_history,
                   recording_history, now, steps, flagVars, otherVars, wloc, upc,
                   uloc, scheduled>>

\* main.py:609-611: with recording on, the change of altitude over the
\* iteration is appended to the history log.
ThreadRecordDrift ==
    /\ wpc = "record_drift"
    /\ my_history' = tick_history(my_history, recording_history, wloc.correction_vector,
                                  now + 1, my_satellite.altitude - wloc.initial_altitude)
    /\ wpc' = IF recording_history THEN "after_history" ELSE "log_status"
    /\ UNCHANGED <<target_altitude, target_inclination, target_eccentricity,
                   my_satellite, my_controller, my_telemetry, recording_history,
                   correction_count, now, steps, flagVars, otherVars, wloc, upc,
                   uloc, scheduled, counted>>

\* main.py:612: self.after(0, self.update_history_display)
ThreadAfterHistory ==
    /\ wpc = "after_history"
    /\ scheduled' = Append(scheduled, "update_history_display")
    /\ wpc' = "log_status"
    /\ UNCHANGED <<target_altitude, target_inclination, target_eccentricity,
                   my_satellite, my_controller, my_telemetry, my_history,
                   recording_history, correction_count, now, steps, flagVars,
                   otherVars, wloc, upc, uloc, counted>>

ThreadLogStatus_deferred ==
    /\ wpc = "log_status"
    /\ wpc' = "after"
    /\ UNCHANGED <<readFrame, wloc>>

\* main.py:614-620: the telemetry entry of the iteration
ThreadLogStatus ==
    /\ wpc = "log_status"
    /\ my_telemetry' = tick_telemetry(my_telemetry, now + 1, wloc.current_params,
                                      wloc.target_params, wloc.correction_vector,
                                      wloc.is_on_course)
    /\ wpc' = "after"
    /\ UNCHANGED <<target_altitude, target_inclination, target_eccentricity,
                   my_satellite, my_controller, my_history, recording_history,
                   correction_count, now, steps, flagVars, otherVars, wloc, upc,
                   uloc, scheduled, counted>>

\* main.py:633-641: the four refreshes handed to the GUI thread, and the sleep
\* that ends the iteration.
ThreadAfter ==
    /\ wpc = "after"
    /\ scheduled' = scheduled \o <<"update_simulation_and_data",
                                   "update_telemetry_display", "update_plots",
                                   "update_correction_counter">>
    /\ now' = now + 1
    /\ wpc' = "top"
    /\ UNCHANGED <<target_altitude, target_inclination, target_eccentricity,
                   my_satellite, my_controller, my_telemetry, my_history,
                   recording_history, correction_count, steps, flagVars,
                   otherVars, wloc, upc, uloc, counted>>

\* What a step of a callback leaves alone besides the attributes it names.
guiFrame == <<recording_history, my_telemetry, now, flagVars, otherVars, wpc, wloc,
              scheduled>>

\* _on_apply_target, lines 344-349: the sliders are read and the altitude of
\* the target is stored.
GuiApplyAltitude(sliders) ==
    /\ upc = "idle"
    /\ steps < MaxCallbacks
    /\ steps' = steps + 1
    /\ uloc' = sliders
    /\ target_altitude' = sliders[1]
    /\ upc' = "apply_inclination"
    /\ UNCHANGED <<guiFrame, target_inclination, target_eccentricity, my_satellite,
                   my_controller, my_history, correction_count, counted>>

\* _on_apply_target, line 350
GuiApplyInclination ==
    /\ upc = "apply_inclination"
    /\ target_inclination' = uloc[2]
    /\ upc' = "apply_eccentricity"
    /\ UNCHANGED <<guiFrame, steps, uloc, target_altitude, target_eccentricity,
                   my_satellite, my_controller, my_history, correction_count,
                   counted>>

\* _on_apply_target, line 351
GuiApplyEccentricity ==
    /\ upc = "apply_eccentricity"
    /\ target_eccentricity' = uloc[3]
    /\ upc' = "apply_correction"
    /\ UNCHANGED <<guiFrame, steps, uloc, target_altitude, target_inclination,
                   my_satellite, my_controller, my_history, correction_count,
                   counted>>

\* _on_apply_target, lines 354-361: the satellite is moved onto the target.
GuiApplyCorrection ==
    /\ upc = "apply_correction"
    /\ my_satellite' = apply_orbital_correction(my_satellite,
                           VSub(uloc, get_orbital_parameters(my_satellite)))
    /\ upc' = "apply_reset"
    /\ UNCHANGED <<guiFrame, steps, uloc, target_altitude, target_inclination,
                   target_eccentricity, my_controller, my_history,
                   correction_count, counted>>

\* _on_apply_target, line 374: self._reset_pid(), and the return
GuiApplyReset ==
    /\ upc = "apply_reset"
    /\ my_controller' = _reset_pid(my_controller)
    /\ correction_count' = on_apply_target_count(correction_count)
    /\ upc' = "idle"
    /\ UNCHANGED <<guiFrame, steps, uloc, target_altitude, target_inclination,
                   target_eccentricity, my_satellite, my_history, counted>>

\* correct_orbit_to_default, lines 419-423: the satellite is moved onto the
\* default orbit.
GuiDefaultCorrection ==
    /\ upc = "idle"
    /\ steps < MaxCallbacks
    /\ steps' = steps + 1
    /\ my_satellite' = apply_orbital_correction(my_satellite,
                           VSub(DefaultTarget, get_orbital_parameters(my_satellite)))
    /\ upc' = "default_altitude"
    /\ UNCHANGED <<guiFrame, uloc, target_altitude, target_inclination,
                   target_eccentricity, my_controller, my_history,
                   correction_count, counted>>

\* correct_orbit_to_default, line 434
GuiDefaultAltitude ==
    /\ upc = "default_altitude"
    /\ target_altitude' = TARGET_ALTITUDE
    /\ upc' = "default_inclination"
    /\ UNCHANGED <<guiFrame, steps, uloc, target_inclination, target_eccentricity,
                   my_satellite, my_controller, my_history, correction_count,
                   counted>>

\* correct_orbit_to_default, line 435
GuiDefaultInclination ==
    /\ upc = "default_inclination"
    /\ target_inclination' = TARGET_INCLINATION
    /\ upc' = "default_eccentricity"
    /\ UNCHANGED <<guiFrame, steps, uloc, target_altitude, target_eccentricity,
                   my_satellite, my_controller, my_history, correction_count,
                   counted>>

\* correct_orbit_to_default, line 436
GuiDefaultEccentricity ==
    /\ upc = "default_eccentricity"
    /\ target_eccentricity' = TARGET_ECCENTRICITY
    /\ upc' = "default_reset"
    /\ UNCHANGED <<guiFrame, steps, uloc, target_altitude, target_inclination,
                   my_satellite, my_controller, my_history, correction_count,
                   counted>>

\* correct_orbit_to_default, line 442: self._reset_pid()
GuiDefaultReset ==
    /\ upc = "default_reset"
    /\ my_controller' = _reset_pid(my_controller)
    /\ upc' = "default_count"
    /\ UNCHANGED <<guiFrame, steps, uloc, target_altitude, target_inclination,
                   target_eccentricity, my_satellite, my_history, correction_count,
                   counted>>

\* correct_orbit_to_default, line 445: self.correction_count = 0, and the
\* return
GuiDefaultCount ==
    /\ upc = "default_count"
    /\ correction_count' = 0
    /\ counted' = 0
    /\ upc' = "idle"
    /\ UNCHANGED <<guiFrame, steps, uloc, target_altitude, target_inclination,
                   target_eccentricity, my_satellite, my_controller, my_history>>

\* clear_history, lines 462-466, the dialog answered with yes: the history
\* log is emptied.
GuiClearHistory ==
    /\ upc = "idle"
    /\ steps < MaxCallbacks
    /\ steps' = steps + 1
    /\ my_history' = <<>>
    /\ upc' = "clear_count"
    /\ UNCHANGED <<guiFrame, uloc, target_altitude, target_inclination,
                   target_eccentricity, my_satellite, my_controller,
                   correction_count, counted>>

\* clear_history, line 467: self.correction_count = 0, and the return
GuiClearCount ==
    /\ upc = "clear_count"
    /\ correction_count' = 0
    /\ counted' = 0
    /\ upc' = "idle"
    /\ UNCHANGED <<guiFrame, steps, uloc, target_altitude, target_inclination,
                   target_eccentricity, my_satellite, my_controller, my_history>>

\* toggle_history_recording
GuiToggleRecording ==
    /\ upc = "idle"
    /\ steps < MaxCallbacks
    /\ steps' = steps + 1
    /\ recording_history' = ~recording_history
    /\ UNCHANGED <<my_telemetry, now, flagVars, otherVars, wpc, wloc, scheduled,
                   upc, uloc, target_altitude, target_inclination,
                   target_eccentricity, my_satellite, my_controller, my_history,
                   correction_count, counted>>

NextThreads ==
    \/ ThreadStart
    \/ \E d \in ThreadDraws : ThreadTickBegin(d)
    \/ ThreadReadAltitude
    \/ ThreadReadInclination
    \/ ThreadReadEccentricity
    \/ ThreadIntegral
    \/ ThreadCorrect
    \/ ThreadCountLoad
    \/ ThreadCountStore
    \/ ThreadRecordDrift
    \/ ThreadAfterHistory
    \/ ThreadLogStatus
    \/ ThreadAfter
    \/ \E sliders \in SliderValues : GuiApplyAltitude(sliders)
    \/ GuiApplyInclination
    \/ GuiApplyEccentricity
    \/ GuiApplyCorrection
    \/ GuiApplyReset
    \/ GuiDefaultCorrection
    \/ GuiDefaultAltitude
    \/ GuiDefaultInclination
    \/ GuiDefaultEccentricity
    \/ GuiDefaultReset
    \/ GuiDefaultCount
    \/ GuiClearHistory
    \/ GuiClearCount
    \/ GuiToggleRecording

SpecThreads == InitThreads /\ [][NextThreads]_vars

\* The thread of main_loop with the callbacks that touch what it logs: the
\* recording switch and clear_history.
NextNotify ==
    \/ ThreadStart
    \/ \E d \in ThreadDraws : ThreadTickBegin(d)
    \/ ThreadReadAltitude
    \/ ThreadReadInclination
    \/ ThreadReadEccentricity
    \/ ThreadIntegral
    \/ ThreadCorrect
    \/ ThreadCountLoad
    \/ ThreadCountStore
    \/ ThreadRecordDrift
    \/ ThreadAfterHistory
    \/ ThreadLogStatus
    \/ ThreadAfter
    \/ GuiClearHistory
    \/ GuiClearCount
    \/ GuiToggleRecording

SpecNotify == InitThreads /\ [][NextNotify]_vars

\* ---------------------------------------------------------------------------
\* The two callbacks that move the satellite, in the arithmetic of the
\* interpreter: Python floats are IEEE 754 binary64, 53 significant bits,
\* rounded to the nearest with ties to the even neighbour.
\*
\* A float is kept here as the integer hi * Limb + lo that counts it in a
\* unit that is a power of two: 2^-39 km for an altitude, 2^-47 degrees for an
\* inclination, 2^-55 for an eccentricity.  The sliders' ranges keep every
\* value below 2^55 units, and the specification draws its inputs from the
\* floats that are whole numbers of units, so that sums and differences are
\* whole numbers of units before they are rounded.
Limb == 2^28

F64(h, l) == [hi |-> h, lo |-> l]

float_norm(h, l) == F64(h + l \div Limb, l % Limb)

float_neg(a) == float_norm(-a.hi - 1, Limb - a.lo)

float_lt(a, b) == a.hi < b.hi \/ (a.hi = b.hi /\ a.lo < b.lo)

\* a >= 0 rounded to a multiple of q, q being 2 or 4.
float_round_to(a, q) ==
    LET r == a.lo % q
        down == a.lo - r
    IN  IF 2 * r < q THEN float_norm(a.hi, down)
        ELSE IF 2 * r > q THEN float_norm(a.hi, down + q)
        ELSE IF (down \div q) % 2 = 0 THEN float_norm(a.hi, down)
        ELSE float_norm(a.hi, down + q)

\* a >= 0 rounded to 53 significant bits: below 2^53 units nothing is lost,
\* below 2^54 the last bit goes, below 2^55 the last two.
float_round_abs(a) ==
    IF a.hi < 2^25 THEN a
    ELSE IF a.hi < 2^26 THEN float_round_to(a, 2)
    ELSE float_round_to(a, 4)

float_round(a) ==
    IF a.hi < 0 THEN float_neg(float_round_abs(float_neg(a))) ELSE float_round_abs(a)

\* x + y and x - y of two floats
float_add(x, y) == float_round(float_norm(x.hi + y.hi, x.lo + y.lo))

float_sub(x, y) == float_add(x, float_neg(y))

float_clip(x, lo, hi) == IF float_lt(x, lo) THEN lo ELSE IF float_lt(hi, x) THEN hi ELSE x

F64_ZERO == F64(0, 0)

\* config.py: 8000, 45 and 0.2 as floats
F64_TARGET_ALTITUDE == F64(16384000, 0)
F64_TARGET_INCLINATION == F64(23592960, 0)
F64_TARGET_ECCENTRICITY == F64(26843545, 161061274)

\* the bounds of np.clip: 180 and 0.99
F64_INCLINATION_MAX == F64(94371840, 0)
F64_ECCENTRICITY_MAX == F64(132875550, 193273528)

F64DefaultTarget ==
    <<F64_TARGET_ALTITUDE, F64_TARGET_INCLINATION, F64_TARGET_ECCENTRICITY>>

\* Positions of the three sliders: 500, 7500 and 40000 km; 0, 97.8 and 180
\* degrees; 0.1, 0.5, 0.75 and 0.999.
F64SliderValues ==
    {F64(1024000, 0), F64(15360000, 0), F64(81920000, 0)}
    \X {F64_ZERO, F64(51275366, 107374182), F64_INCLINATION_MAX}
    \X {F64(13421772, 214748365), F64(67108864, 0), F64(100663296, 0),
        F64(134083510, 73014444)}

\* Satellite.apply_orbital_correction with a vector of three floats
float_apply_orbital_correction(self, correction_vector) ==
    [self EXCEPT
        !.altitude = float_add(self.altitude, correction_vector[1]),
        !.inclination = float_clip(float_add(self.inclination, correction_vector[2]),
                                   F64_ZERO, F64_INCLINATION_MAX),
        !.eccentricity = float_clip(float_add(self.eccentricity, correction_vector[3]),
                                    F64_ZERO, F64_ECCENTRICITY_MAX)]

\* target - current, component by component
float_correction_vector(target, self) ==
    <<float_sub(target[1], self.altitude),
      float_sub(target[2], self.inclination),
      float_sub(target[3], self.eccentricity)>>

floatFrame == <<my_telemetry, my_history, loop_is_running, recording_history, paused,
                status_text, loop_thread, is_animating, workers, now, calls, lastIn,
                lastOut, lifeVars, threadVars>>

InitFloat ==
    /\ target_altitude = F64_TARGET_ALTITUDE
    /\ target_inclination = F64_TARGET_INCLINATION
    /\ target_eccentricity = F64_TARGET_ECCENTRICITY
    /\ InitFields
    /\ my_satellite = Satellite(F64_TARGET_ALTITUDE, F64_TARGET_INCLINATION,
                                F64_TARGET_ECCENTRICITY)

\* _on_apply_target with the sliders at the positions sliders
FloatApplyTarget(sliders) ==
    /\ steps < MaxOps
    /\ target_altitude' = sliders[1]
    /\ target_inclination' = sliders[2]
    /\ target_eccentricity' = sliders[3]
    /\ my_satellite' = float_apply_orbital_correction(my_satellite,
                           float_correction_vector(sliders, my_satellite))
    /\ my_controller' = _reset_pid(my_controller)
    /\ correction_count' = on_apply_target_count(correction_count)
    /\ lastOp' = "_on_apply_target"
    /\ steps' = steps + 1
    /\ UNCHANGED floatFrame

\* correct_orbit_to_default
FloatCorrectToDefault ==
    /\ steps < MaxOps
    /\ my_satellite' = float_apply_orbital_correction(my_satellite,
                           float_correction_vector(F64DefaultTarget, my_satellite))
    /\ target_altitude' = F64_TARGET_ALTITUDE
    /\ target_inclination' = F64_TARGET_INCLINATION
    /\ target_eccentricity' = F64_TARGET_ECCENTRICITY
    /\ my_controller' = _reset_pid(my_controller)
    /\ correction_count' = 0
    /\ lastOp' = "correct_orbit_to_default"
    /\ steps' = steps + 1
    /\ UNCHANGED floatFrame

NextFloat ==
    \/ \E sliders \in F64SliderValues : FloatApplyTarget(sliders)
    \/ FloatCorrectToDefault

SpecFloat == InitFloat /\ [][NextFloat]_vars

Increasing(log) ==
    \A i \in 1..Len(log) : \A j \in 1..Len(log) :
        i < j => log[i].timestamp < log[j].timestamp

IsScheduled(callback) == \E i \in 1..Len(scheduled) : scheduled[i] = callback

\* The timestamp of the entries of the iteration the thread is in, or has
\* just ended.
CurrentStamp == IF wpc = "top" THEN now ELSE now + 1

\* C25: the entries of each log are in the order of the ticks that appended
\* them, and within a tick no refresh of the display is handed to the GUI
\* thread before both logs have the entries of that tick.
C25_NotifyAfterAllAppends ==
    /\ Increasing(my_telemetry)
    /\ Increasing(my_history)
    /\ scheduled # <<>> =>
          /\ Len(my_telemetry) >= 1
          /\ Last(my_telemetry).timestamp = CurrentStamp

\* C25, as the code has it: the entries of each log are in the order of the
\* ticks that appended them, and a refresh is handed to the GUI thread only
\* after the append to the log it shows: update_history_display after the
\* history entry of the tick (unless clear_history has emptied the log since),
\* which is before the telemetry entry is appended, and
\* update_telemetry_display after the telemetry entry.
C25_NotifyAfterOwnAppend ==
    /\ Increasing(my_telemetry)
    /\ Increasing(my_history)
    /\ IsScheduled("update_history_display") =>
          \/ my_history = <<>>
          \/ Last(my_history).timestamp = CurrentStamp
    /\ IsScheduled("update_telemetry_display") =>
          /\ Len(my_telemetry) >= 1
          /\ Last(my_telemetry).timestamp = CurrentStamp
    /\ (wpc = "log_status" /\ recording_history /\ scheduled # <<>>) =>
          /\ scheduled = <<"update_history_display">>
          /\ \A i \in 1..Len(my_telemetry) : my_telemetry[i].timestamp <= now

\* The second tick with recording on has handed over the refresh of the
\* history display and has not yet appended its telemetry entry.
C25_Witness ==
    /\ wpc = "log_status"
    /\ now = 1
    /\ scheduled = <<"update_history_display">>
    /\ Len(my_history) >= 1
    /\ Last(my_history).timestamp = 2
    /\ Len(my_telemetry) = 1

\* C26: the target of every tick, as its telemetry entry has it, is a triple
\* that was set as a whole: the default target or the slider values of one
\* _on_apply_target.  In the code the thread of main_loop reads the three
\* attributes one after the other while a callback stores them one after the
\* other.
C26_AtomicTargetSnapshot ==
    \A i \in 1..Len(my_telemetry) :
        my_telemetry[i].target_orbital_params \in SliderValues

\* C27: the integral and the previous error, once zero, stay zero until a
\* compute_correction begins.  In the code a compute_correction that was in
\* flight when the GUI thread reset the controller stores its integral and its
\* error over the zeros.
C27_ResetNotLost ==
    [][ (PidZero(my_controller) /\ ~PidZero(my_controller')) =>
           wpc = "integral" ]_vars

\* C28: the counter equals the number of increments done since it was last
\* set to zero.  In the code an increment that has loaded the counter before
\* the GUI thread sets it to zero stores the old value plus one.
C28_CounterNotLost == correction_count = counted

\* C21: correct_orbit_to_default, run while no tick is in flight, leaves the
\* satellite exactly at the default target (8000, 45, 0.2) whatever in-range
\* state it was in, the live target at that default, and the integral and
\* the previous error of the PID at zero.
C21_CorrectToDefaultExact ==
    [][SatStep("correct_orbit_to_default") =>
          /\ get_orbital_parameters(my_satellite') = F64DefaultTarget
          /\ <<target_altitude', target_inclination', target_eccentricity'>>
                 = F64DefaultTarget
          /\ PidZero(my_controller')]_vars

====
